---- MODULE Spec2Model ----
(***************************************************************************)
(* A model of src/cv_camera.py: the startup of main(), the per-camera      *)
(* capture -> predict -> publish -> update -> sleep loop, and the MQTT     *)
(* traffic it produces.                                                    *)
(*                                                                         *)
(* Strings that the program only compares or concatenates whole (camera    *)
(* names, topic segments) are TLA+ strings; class names, which the program *)
(* rewrites character by character (str.replace), are sequences of         *)
(* one-character strings.  A topic "a/b/c" is the tuple <<"a","b","c">>.   *)
(* Confidences are integers: thousandths as the detector returns them,     *)
(* hundredths after round(confidence, 2).                                  *)
(***************************************************************************)
EXTENDS Integers, Sequences, FiniteSets, TLC

\* ------------------------------------------------------------- bounds
\* Longest camera list publish_mqtt_discovery is called with on its own.
MaxCams == 2
\* Most calls of publish_mqtt_discovery in a row.
MaxCalls == 2
\* Longest list of boxes the detector returns for one frame.
MaxDet == 2
\* Longest time (in clock ticks) one capture or one inference takes.
MaxDur == 1

\* ------------------------------------------------------ configuration
\* config["interval"], in clock ticks.
INTERVAL == 1

\* config["cameras"]: the first camera saves its frames, the second does not.
CAMERAS ==
  << [name |-> "front", url |-> "rtsp://front", output_folder |-> "frames"],
     [name |-> "back", url |-> "rtsp://back"] >>

CameraNames == { CAMERAS[k].name : k \in 1..Len(CAMERAS) }

\* model.names, taken as the list of class names the code indexes by class id
\* (line 156) and iterates over (line 75): "cat", "traffic light".
ModelNames == << <<"c", "a", "t">>, <<"t", " ", "l">> >>

ClassIds == 1..Len(ModelNames)

Labels == { ModelNames[k] : k \in ClassIds }

\* Raw confidences (thousandths) the detector reports; all pass conf=0.5.
RawConfs == {604, 896}

\* One box of a result: its class id and raw confidence.
Boxes == [cls : ClassIds, conf : RawConfs]

RECURSIVE SeqsUpTo(_, _)
SeqsUpTo(S, n) ==
  IF n = 0 THEN { <<>> }
  ELSE LET shorter == SeqsUpTo(S, n - 1)
       IN shorter \cup { Append(s, x) : s \in { t \in shorter : Len(t) = n - 1 }, x \in S }

\* What model.predict can return for a frame.
BoxLists == SeqsUpTo(Boxes, MaxDet)

Durations == 0..MaxDur

\* ------------------------------------------------------------ helpers
\* max(0, x) of line 196.
Max(a, b) == IF a >= b THEN a ELSE b

\* str.replace(" ", "_") on a class name.
Replace(s) == [k \in 1..Len(s) |-> IF s[k] = " " THEN "_" ELSE s[k]]

\* round(confidence, 2): thousandths to hundredths (no raw value ends in 5).
Round2(c) == (c + 5) \div 10

\* -------------------------------------------------------------- topics
StateTopic(camera_name, class_name) ==
  <<"objectdetection", camera_name, Replace(class_name), "state">>

AttributesTopic(camera_name, class_name) ==
  <<"objectdetection", camera_name, Replace(class_name), "attributes">>

DiscoveryTopic(camera_name, class_name) ==
  <<"homeassistant", "binary_sensor", "object_detection",
    <<camera_name, "_", Replace(class_name)>>, "config">>

Msg(topic, payload, retain) == [topic |-> topic, payload |-> payload, retain |-> retain]

\* Lines 76 and 79: the state topic as publish_mqtt_discovery builds it.
DiscoveryStateTopicRaw(camera_name, class_name) ==
  <<"objectdetection", camera_name, class_name, "state">>

DiscoveryStateTopic(camera_name, class_name) ==
  <<"objectdetection", camera_name, Replace(class_name), "state">>

\* Lines 76 and 80: the attributes topic as publish_mqtt_discovery builds it.
DiscoveryAttributesTopic(camera_name, class_name) ==
  <<"objectdetection", camera_name, Replace(class_name), "attributes">>

\* The discovery payload of one camera and class.
DiscoveryPayload(camera_name, class_name) ==
  [ name |-> <<camera_name, " ", class_name>>,
    state_topic |-> DiscoveryStateTopic(camera_name, class_name),
    json_attributes_topic |-> DiscoveryAttributesTopic(camera_name, class_name),
    payload_on |-> "ON",
    payload_off |-> "OFF",
    unique_id |-> <<"cv_camera_", camera_name, "_", Replace(class_name)>> ]

\* publish_mqtt_discovery with line 97's retain=True left out.
DiscoverySequenceUnretained(cameras, model_names) ==
  [n \in 1..(Len(cameras) * Len(model_names)) |->
     LET k == ((n - 1) \div Len(model_names)) + 1
         j == ((n - 1) % Len(model_names)) + 1
     IN Msg(DiscoveryTopic(cameras[k].name, model_names[j]),
            DiscoveryPayload(cameras[k].name, model_names[j]), FALSE)]

\* publish_mqtt_discovery: the messages it publishes, in order (cameras in the
\* outer loop, classes in the inner one).
DiscoverySequence(cameras, model_names) ==
  [n \in 1..(Len(cameras) * Len(model_names)) |->
     LET k == ((n - 1) \div Len(model_names)) + 1
         j == ((n - 1) % Len(model_names)) + 1
     IN Msg(DiscoveryTopic(cameras[k].name, model_names[j]),
            DiscoveryPayload(cameras[k].name, model_names[j]), TRUE)]

\* The broker's retained messages after it received msgs on top of held:
\* a retained message replaces the one held for its topic.
Retain(held, msgs) ==
  LET kept == { msgs[k] : k \in { i \in 1..Len(msgs) :
                  /\ msgs[i].retain
                  /\ \A j \in (i + 1)..Len(msgs) : msgs[j].topic # msgs[i].topic } }
  IN { m \in held : \A x \in kept : x.topic # m.topic } \cup kept

\* What a subscriber of the state topics holds after msgs were delivered in
\* the order they were published: a topic is on when its last payload is "ON".
RECURSIVE Deliver(_, _)
Deliver(on, msgs) ==
  IF msgs = <<>> THEN on
  ELSE LET m == Head(msgs)
           next == IF m.payload = <<"ON">> THEN on \cup {m.topic}
                   ELSE IF m.payload = <<"OFF">> THEN on \ {m.topic}
                   ELSE on
       IN Deliver(next, Tail(msgs))

\* ---------------------------------------------------------- the cycle
\* get_camera_frame: opened is cap.isOpened(), warm the results of the five
\* discarded reads, ret the result of the final read.
WarmupReads == 5

get_camera_frame(opened, warm, ret) ==
  IF ~opened THEN "None"
  ELSE IF ret THEN "frame" ELSE "None"

\* Every result get_camera_frame can have, over all the stream can do.
CaptureOutcomes ==
  { get_camera_frame(opened, warm, ret) :
      opened \in BOOLEAN, warm \in [1..WarmupReads -> BOOLEAN], ret \in BOOLEAN }

\* Lines 152-161: the detections list built from the boxes of the results.
ProcessResults(boxes) ==
  [k \in 1..Len(boxes) |->
     [object |-> ModelNames[boxes[k].cls], confidence |-> Round2(boxes[k].conf)]]

\* Line 164.
DetectedClasses(dets) == { dets[k].object : k \in 1..Len(dets) }

\* Lines 168-176: the two publishes of one iteration of the ON loop.
OnMessagesStateOnly(camera_name, d) ==
  << Msg(StateTopic(camera_name, d.object), <<"ON">>, FALSE) >>

OnMessages(camera_name, d) ==
  << Msg(AttributesTopic(camera_name, d.object), <<"confidence", d.confidence>>, FALSE),
     Msg(StateTopic(camera_name, d.object), <<"ON">>, FALSE) >>

\* Lines 182-184: the publish of one iteration of the OFF loop.
OffMessage(camera_name, class_name) ==
  Msg(StateTopic(camera_name, class_name), <<"OFF">>, FALSE)

\* Line 180.
DisappearedNone(prev, detected) == {}

DisappearedClasses(prev, detected) == prev \ detected

\* Line 188.
UpdateAccumulating(prev, camera_name, detected) ==
  [prev EXCEPT ![camera_name] = prev[camera_name] \cup detected]

UpdateResettingOthers(prev, camera_name, detected) ==
  [c \in DOMAIN prev |-> IF c = camera_name THEN detected ELSE {}]

UpdatePrevious(prev, camera_name, detected) ==
  [prev EXCEPT ![camera_name] = detected]

\* Line 137: the start time is taken at the top of every iteration of the
\* for loop (position: the camera's place in CAMERAS, old: its value so far).
StartOncePerPass(clock, position, old) == IF position = 1 THEN clock ELSE old

StartTime(clock, position, old) == clock

\* Line 196.
SleepUnclamped(elapsed) == INTERVAL - elapsed

SleepTime(elapsed) == Max(0, INTERVAL - elapsed)

\* --------------------------------------------------------------- state
VARIABLES
  pc,                   \* where main() is
  exc,                  \* the exception raised last ("none": none)
  retained,             \* the broker's retained messages
  previous_detections,  \* line 133
  idx,                  \* position of the for loop in CAMERAS
  now,                  \* time.time(), relative to the start of the pass
  start_time,           \* line 137
  frame,                \* line 141: "frame", "None", or "unset" before capture
  save_result,          \* what save_frame did this cycle
  detections,           \* lines 152-161
  next_d,               \* position of the ON loop in detections
  disappeared,          \* line 180: the classes the OFF loop has yet to visit
  sleep_time,           \* line 196
  published,            \* the messages handed to client.publish this cycle
  cameras,              \* line 18: config["cameras"] as loaded
  on_topics,            \* the state topics whose last delivered payload is "ON"
  calls,                \* completed calls of publish_mqtt_discovery
  retained_once,        \* the broker's retained messages after the first call
  cap,                  \* one run of get_camera_frame, step by step
  \* history, for stating properties
  prev_at_start,        \* previous_detections as the cycle started
  succeeded,            \* cameras that completed capture and inference before
  last_labels,          \* per camera, the labels of its last such cycle
  first_success,        \* this cycle is its camera's first such cycle
  labels_before,        \* the labels of the camera's such cycle before this one
  cycle_d,              \* time this cycle's capture and inference took
  pass_d,               \* sum of cycle_d over the cycles of this pass
  pass_max              \* sum of max(INTERVAL, cycle_d) over them

vars ==
  << pc, exc, retained, previous_detections, idx, now, start_time, frame,
     save_result, detections, next_d, disappeared, sleep_time, published,
     prev_at_start, succeeded, last_labels, first_success, labels_before,
     cycle_d, pass_d, pass_max, cameras, on_topics, calls, retained_once,
     cap >>

cycleVars == << frame, save_result, detections, next_d, disappeared, published >>
timeVars == << now, start_time, sleep_time, cycle_d, pass_d, pass_max >>
histVars == << prev_at_start, succeeded, last_labels, first_success, labels_before >>
cfgVars == << cameras, cap >>
discVars == << calls, retained_once >>

camera == cameras[idx]
camera_name == camera.name

\* get_camera_frame not running: main() reaches it through CaptureOutcomes.
CapIdle ==
  [opened |-> FALSE, warm |-> [k \in 1..WarmupReads |-> FALSE], ret |-> FALSE,
   at |-> "idle", reads |-> 0, released |-> FALSE, result |-> "unset"]

\* The program's own variables before anything ran.
InitLocals ==
  /\ exc = "none"
  /\ previous_detections = [c \in {} |-> {}]
  /\ idx = 1
  /\ now = 0
  /\ start_time = 0
  /\ frame = "unset"
  /\ save_result = "none"
  /\ detections = <<>>
  /\ next_d = 1
  /\ disappeared = {}
  /\ sleep_time = 0
  /\ published = <<>>
  /\ prev_at_start = [c \in {} |-> {}]
  /\ succeeded = {}
  /\ last_labels = [c \in CameraNames |-> {}]
  /\ first_success = FALSE
  /\ labels_before = {}
  /\ cycle_d = 0
  /\ pass_d = 0
  /\ pass_max = 0
  /\ on_topics = {}
  /\ calls = 0
  /\ retained_once = {}

\* The process starts with the configuration file holding CAMERAS and a
\* broker that retains nothing.
Init ==
  /\ pc = "load_config"
  /\ retained = {}
  /\ cameras = CAMERAS
  /\ cap = CapIdle
  /\ InitLocals

\* Lines 12-24: the configuration is read as the module is imported; a missing
\* or malformed file raises there and the process ends before main().
LoadConfig ==
  /\ pc = "load_config"
  /\ \E ok \in BOOLEAN :
       IF ok THEN pc' = "load_model" /\ exc' = exc
       ELSE pc' = "crashed" /\ exc' = "config"
  /\ UNCHANGED << retained, previous_detections, idx, cycleVars, timeVars, histVars >>
  /\ UNCHANGED << cfgVars, discVars, on_topics >>

\* ------------------------------------------------------------- startup
\* Lines 106-111: YOLO(MODEL_PATH) succeeds, or raises and main returns.
LoadModel ==
  /\ pc = "load_model"
  /\ \E ok \in BOOLEAN :
       IF ok THEN pc' = "connect" /\ exc' = exc
       ELSE pc' = "exited" /\ exc' = "model_load"
  /\ UNCHANGED << retained, previous_detections, idx, cycleVars, timeVars, histVars >>
  /\ UNCHANGED << cfgVars, discVars, on_topics >>

\* Lines 118-133 with the return of line 128 left out: the loop is entered
\* although connecting failed.
ConnectWithoutReturn ==
  /\ pc = "connect"
  /\ \E outcome \in {"ok", "connect_raises"} :
       /\ retained' = IF outcome = "ok"
                      THEN Retain(retained, DiscoverySequence(cameras, ModelNames))
                      ELSE retained
       /\ exc' = IF outcome = "ok" THEN exc ELSE "connect"
  /\ calls' = calls + 1
  /\ retained_once' = retained'
  /\ previous_detections' = [c \in { cameras[k].name : k \in 1..Len(cameras) } |-> {}]
  /\ prev_at_start' = previous_detections'
  /\ pc' = "while"
  /\ UNCHANGED << idx, cycleVars, timeVars, succeeded, last_labels, first_success,
                  labels_before, cfgVars, on_topics >>

\* Lines 118-133: connect and discovery inside one try block; on success the
\* loop is entered with every camera's set empty.
Connect ==
  /\ pc = "connect"
  /\ \E outcome \in {"ok", "connect_raises", "discovery_raises"} :
       \/ /\ outcome = "ok"
          /\ retained' = Retain(retained, DiscoverySequence(cameras, ModelNames))
          /\ calls' = calls + 1
          /\ retained_once' = retained'
          /\ previous_detections' = [c \in { cameras[k].name : k \in 1..Len(cameras) } |-> {}]
          /\ prev_at_start' = previous_detections'
          /\ pc' = "while"
          /\ exc' = exc
       \/ /\ outcome = "connect_raises"
          /\ pc' = "exited"
          /\ exc' = "connect"
          /\ UNCHANGED << retained, previous_detections, prev_at_start, discVars >>
       \/ /\ outcome = "discovery_raises"
          /\ \E n \in 0..(Len(DiscoverySequence(cameras, ModelNames)) - 1) :
               retained' = Retain(retained, SubSeq(DiscoverySequence(cameras, ModelNames), 1, n))
          /\ pc' = "exited"
          /\ exc' = "discovery"
          /\ UNCHANGED << previous_detections, prev_at_start, discVars >>
  /\ UNCHANGED << idx, cycleVars, timeVars, succeeded, last_labels, first_success,
                  labels_before, cfgVars, on_topics >>

\* ---------------------------------------------------------------- loop
\* Line 135: a pass over CAMERAS begins.  Only differences of time.time()
\* are ever used, so the clock is read relative to the start of the pass.
WhileTrue ==
  /\ pc = "while"
  /\ pc' = IF Len(cameras) = 0 THEN "while" ELSE "for"
  /\ idx' = 1
  /\ now' = 0
  /\ start_time' = 0
  /\ pass_d' = 0
  /\ pass_max' = 0
  /\ UNCHANGED << exc, retained, previous_detections, cycleVars, sleep_time,
                  cycle_d, histVars >>
  /\ UNCHANGED << cfgVars, discVars, on_topics >>

\* Lines 136-141: the next camera's cycle starts; its frame is captured.
Capture ==
  /\ pc = "for"
  /\ start_time' = StartTime(now, idx, start_time)
  /\ \E f \in CaptureOutcomes, d \in Durations :
       /\ frame' = f
       /\ now' = now + d
       /\ cycle_d' = d
  /\ pc' = IF frame' = "None" THEN "skip" ELSE "save"
  /\ save_result' = "none"
  /\ detections' = <<>>
  /\ next_d' = 1
  /\ disappeared' = {}
  /\ published' = <<>>
  /\ sleep_time' = 0
  /\ prev_at_start' = previous_detections
  /\ first_success' = FALSE
  /\ labels_before' = {}
  /\ UNCHANGED << exc, retained, previous_detections, idx, pass_d, pass_max,
                  succeeded, last_labels >>
  /\ UNCHANGED << cfgVars, discVars, on_topics >>

\* Lines 144-146 and save_frame: called only for a camera with an
\* output_folder; it handles its own failures and never raises.
SaveFrameRaising ==
  /\ pc = "save"
  /\ IF "output_folder" \in DOMAIN camera
     THEN \E r \in {"saved", "mkdir_failed", "write_failed"} :
            /\ save_result' = r
            /\ IF r = "saved" THEN pc' = "predict" /\ exc' = exc
               ELSE pc' = "crashed" /\ exc' = "persist"
     ELSE save_result' = "none" /\ pc' = "predict" /\ exc' = exc
  /\ UNCHANGED << retained, previous_detections, idx, frame, detections,
                  next_d, disappeared, published, timeVars, histVars >>
  /\ UNCHANGED << cfgVars, discVars, on_topics >>

SaveFrame ==
  /\ pc = "save"
  /\ IF "output_folder" \in DOMAIN camera
     THEN \E r \in {"saved", "mkdir_failed", "write_failed"} : save_result' = r
     ELSE save_result' = "none"
  /\ pc' = "predict"
  /\ UNCHANGED << exc, retained, previous_detections, idx, frame, detections,
                  next_d, disappeared, published, timeVars, histVars >>
  /\ UNCHANGED << cfgVars, discVars, on_topics >>

\* Lines 149-164: inference and the detections list; model.predict may raise,
\* and nothing in the loop catches it.
Predict ==
  /\ pc = "predict"
  /\ \/ /\ pc' = "crashed"
        /\ exc' = "inference"
        /\ UNCHANGED << detections, now, cycle_d, succeeded, last_labels, first_success,
                        labels_before >>
     \/ \E boxes \in BoxLists, d \in Durations :
          /\ detections' = ProcessResults(boxes)
          /\ now' = now + d
          /\ cycle_d' = cycle_d + d
          /\ first_success' = (camera_name \notin succeeded)
          /\ succeeded' = succeeded \cup {camera_name}
          /\ labels_before' = last_labels[camera_name]
          /\ last_labels' = [last_labels EXCEPT ![camera_name] =
                               { ModelNames[boxes[k].cls] : k \in 1..Len(boxes) }]
          /\ pc' = "publish_on"
          /\ exc' = exc
  /\ next_d' = 1
  /\ UNCHANGED << retained, previous_detections, idx, frame, save_result,
                  disappeared, published, start_time, sleep_time, pass_d,
                  pass_max, prev_at_start >>
  /\ UNCHANGED << cfgVars, discVars, on_topics >>

\* Lines 167-177: one iteration of the ON loop; either publish may raise.
PublishOn ==
  /\ pc = "publish_on"
  /\ next_d <= Len(detections)
  /\ LET msgs == OnMessages(camera_name, detections[next_d])
     IN \E outcome \in {"ok", "attributes_raises", "state_raises"} :
          \/ /\ outcome = "ok"
             /\ published' = published \o msgs
             /\ on_topics' = Deliver(on_topics, msgs)
             /\ next_d' = next_d + 1
             /\ UNCHANGED << pc, exc >>
          \/ /\ outcome = "attributes_raises"
             /\ pc' = "crashed"
             /\ exc' = "publish"
             /\ UNCHANGED << published, next_d, on_topics >>
          \/ /\ outcome = "state_raises"
             /\ published' = Append(published, msgs[1])
             /\ on_topics' = Deliver(on_topics, << msgs[1] >>)
             /\ pc' = "crashed"
             /\ exc' = "publish"
             /\ UNCHANGED next_d
  /\ UNCHANGED << retained, previous_detections, idx, frame, save_result,
                  detections, disappeared, timeVars, histVars >>
  /\ UNCHANGED << cfgVars, discVars >>

\* Line 180: the ON loop is over; the classes to switch off are computed.
ComputeDisappeared ==
  /\ pc = "publish_on"
  /\ next_d > Len(detections)
  /\ disappeared' = DisappearedClasses(previous_detections[camera_name],
                                       DetectedClasses(detections))
  /\ pc' = "publish_off"
  /\ UNCHANGED << exc, retained, previous_detections, idx, frame, save_result,
                  detections, next_d, published, timeVars, histVars >>
  /\ UNCHANGED << cfgVars, discVars, on_topics >>

\* Lines 181-185: one iteration of the OFF loop (a set: any order).
PublishOff ==
  /\ pc = "publish_off"
  /\ \E class_name \in disappeared :
       \/ /\ published' = Append(published, OffMessage(camera_name, class_name))
          /\ on_topics' = Deliver(on_topics, << OffMessage(camera_name, class_name) >>)
          /\ disappeared' = disappeared \ {class_name}
          /\ UNCHANGED << pc, exc >>
       \/ /\ pc' = "crashed"
          /\ exc' = "publish"
          /\ UNCHANGED << published, disappeared, on_topics >>
  /\ UNCHANGED << retained, previous_detections, idx, frame, save_result,
                  detections, next_d, timeVars, histVars >>
  /\ UNCHANGED << cfgVars, discVars >>

\* Line 188.
Update ==
  /\ pc = "publish_off"
  /\ disappeared = {}
  /\ previous_detections' =
       UpdatePrevious(previous_detections, camera_name, DetectedClasses(detections))
  /\ pc' = "sleep"
  /\ UNCHANGED << exc, retained, idx, cycleVars, timeVars, histVars >>
  /\ UNCHANGED << cfgVars, discVars, on_topics >>

\* Lines 190-191: no frame, the cycle is skipped.
SkipAsEmptyFrame ==
  /\ pc = "skip"
  /\ pc' = "publish_on"
  /\ UNCHANGED << exc, retained, previous_detections, idx, cycleVars, timeVars,
                  histVars >>
  /\ UNCHANGED << cfgVars, discVars, on_topics >>

Skip ==
  /\ pc = "skip"
  /\ pc' = "sleep"
  /\ UNCHANGED << exc, retained, previous_detections, idx, cycleVars, timeVars,
                  histVars >>
  /\ UNCHANGED << cfgVars, discVars, on_topics >>

\* Lines 195-197, then the for loop moves on (or the pass ends).
Sleep ==
  /\ pc = "sleep"
  /\ sleep_time' = SleepTime(now - start_time)
  /\ now' = now + sleep_time'
  /\ pass_d' = pass_d + cycle_d
  /\ pass_max' = pass_max + (IF cycle_d > INTERVAL THEN cycle_d ELSE INTERVAL)
  /\ idx' = idx + 1
  /\ pc' = IF idx + 1 > Len(cameras) THEN "while" ELSE "for"
  /\ UNCHANGED << exc, retained, previous_detections, cycleVars, start_time,
                  cycle_d, histVars >>
  /\ UNCHANGED << cfgVars, discVars, on_topics >>

Next ==
  \/ LoadConfig
  \/ LoadModel
  \/ Connect
  \/ WhileTrue
  \/ Capture
  \/ SaveFrame
  \/ Predict
  \/ PublishOn
  \/ ComputeDisappeared
  \/ PublishOff
  \/ Update
  \/ Skip
  \/ Sleep

Spec == Init /\ [][Next]_vars

\* ------------------------------------------------------- observations
\* The places of this cycle's messages on a topic with a payload.
Sent(topic, payload) ==
  { k \in 1..Len(published) :
      published[k].topic = topic /\ published[k].payload = payload }

\* The places of this cycle's messages on a topic.
SentOn(topic) == { k \in 1..Len(published) : published[k].topic = topic }

OnEvents(L) == Cardinality(Sent(StateTopic(camera_name, L), <<"ON">>))
OffEvents(L) == Cardinality(Sent(StateTopic(camera_name, L), <<"OFF">>))

AllOn == { k \in 1..Len(published) : published[k].payload = <<"ON">> }
AllOff == { k \in 1..Len(published) : published[k].payload = <<"OFF">> }

\* The cycle of the current camera has run its body (the sleep is next).
CycleDone == pc = "sleep"
CycleSucceeded == CycleDone /\ frame = "frame"
CycleFailed == CycleDone /\ frame = "None"

\* A sleep was just performed: the for loop moved on, or the pass ended.
AfterSleep == pc \in {"for", "while"} /\ idx > 1
PassDone == pc = "while" /\ idx = Len(cameras) + 1

\* ------------------------------------------------------------- claims

\* C1: between two consecutive successful cycles of a camera detecting label
\* sets A and B, the second emits exactly |B \ A| ON events, |A \ B| OFF
\* events, and nothing at all for a label in both.
C1_SetDifferenceEvents ==
  (CycleSucceeded /\ ~first_success) =>
    LET A == labels_before
        B == last_labels[camera_name]
    IN /\ Cardinality(AllOn) = Cardinality(B \ A)
       /\ Cardinality(AllOff) = Cardinality(A \ B)
       /\ \A L \in A \cap B :
            /\ SentOn(StateTopic(camera_name, L)) = {}
            /\ SentOn(AttributesTopic(camera_name, L)) = {}

\* C2: a cycle whose capture failed leaves previous_detections as it was when
\* the cycle started and publishes nothing.
C2_CaptureFailureSilent ==
  (frame = "None") =>
    /\ published = <<>>
    /\ previous_detections = prev_at_start

\* C2 witness: a failed cycle of a camera that has labels switched on.
C2_Witness == CycleFailed /\ previous_detections[camera_name] # {}

\* C3: between cycles, every camera's previous_detections entry is the label
\* set of its most recent successful cycle, and empty if it had none.
C3_StateIsLastSuccess ==
  (pc \in {"sleep", "for", "while"}) =>
    \A c \in CameraNames :
      /\ previous_detections[c] = last_labels[c]
      /\ (c \notin succeeded => previous_detections[c] = {})

\* C3 witness: a failed cycle after a successful one that detected something,
\* while the other camera has had no successful cycle.
C3_Witness ==
  /\ CycleFailed
  /\ camera_name \in succeeded
  /\ last_labels[camera_name] # {}
  /\ succeeded # CameraNames

\* C4: a camera's first successful cycle emits no OFF event and exactly one
\* ON event per distinct detected label.
C4_FirstCycleOnePerLabel ==
  (CycleSucceeded /\ first_success) =>
    /\ AllOff = {}
    /\ \A L \in Labels :
         OnEvents(L) = IF L \in last_labels[camera_name] THEN 1 ELSE 0

\* C5: after a successful cycle, the confidence last published on a detected
\* label's attributes topic is the highest confidence detected for that label.
C5_HighestConfidenceReported ==
  CycleSucceeded =>
    \A L \in last_labels[camera_name] :
      LET sent == SentOn(AttributesTopic(camera_name, L))
          last == CHOOSE k \in sent : \A j \in sent : j <= k
          confs == { detections[k].confidence :
                       k \in { j \in 1..Len(detections) : detections[j].object = L } }
      IN /\ sent # {}
         /\ published[last].payload[1] = "confidence"
         /\ \A x \in confs : published[last].payload[2] >= x

\* C6 as claimed: scheduling is whole-pass, so a pass takes
\* max(interval, sum of d_i) and the sleep after a pass whose cycles took
\* more than the interval is 0.
C6_WholePass ==
  PassDone =>
    /\ now = (IF pass_d > INTERVAL THEN pass_d ELSE INTERVAL)
    /\ (pass_d > INTERVAL => sleep_time = 0)

\* C6 amended: scheduling is per-camera.  A camera's cycle of duration d_i
\* and the sleep after it take max(interval, d_i) from that cycle's start
\* time, the sleep is 0 when d_i exceeds the interval, and a pass takes the
\* sum of max(interval, d_i).
C6_PerCamera ==
  /\ AfterSleep =>
       /\ now - start_time = (IF cycle_d > INTERVAL THEN cycle_d ELSE INTERVAL)
       /\ (cycle_d > INTERVAL => sleep_time = 0)
  /\ PassDone => now = pass_max

\* C6 witness: a pass ended whose cycles took more than the interval in
\* total, and yet the last camera slept.
C6_Witness == PassDone /\ pass_d > INTERVAL /\ sleep_time > 0

\* C7: every sleep lasts max(0, interval - elapsed): never negative, 0 when
\* elapsed >= interval, interval - elapsed otherwise.
C7_SleepClamped ==
  AfterSleep =>
    /\ sleep_time >= 0
    /\ (cycle_d >= INTERVAL => sleep_time = 0)
    /\ (cycle_d < INTERVAL => sleep_time = INTERVAL - cycle_d)

\* C7 witness: a sleep after a cycle that took longer than the interval.
C7_Witness == pc = "for" /\ idx > 1 /\ cycle_d > INTERVAL /\ sleep_time = 0

\* C8: an exception raised during a camera's cycle does not end the process.
C8_ExceptionContained ==
  (exc \in {"inference", "publish"}) => pc # "crashed"

\* C9: when inference raises, the camera's state is untouched, nothing is
\* published for it in that cycle, and the loop goes on to retry it.
C9_InferenceFailureRetried ==
  (exc = "inference") =>
    /\ previous_detections = prev_at_start
    /\ published = <<>>
    /\ pc # "crashed"

\* C10: when a publish raises, the loop goes on, and once the cycle is over
\* the camera's state is the newly detected label set.
C10_PublishFailureIgnored ==
  (exc = "publish") =>
    /\ pc # "crashed"
    /\ (pc \notin {"publish_on", "publish_off"} =>
          previous_detections[camera_name] = last_labels[camera_name])

\* The messages of a finished successful cycle are the ON pairs of its
\* detections, in order, then one OFF per label that disappeared.
PublishedAsDetected ==
  LET n == Len(detections)
      off == labels_before \ last_labels[camera_name]
  IN /\ Len(published) = 2 * n + Cardinality(off)
     /\ \A k \in 1..n :
          /\ published[2 * k - 1] = OnMessages(camera_name, detections[k])[1]
          /\ published[2 * k] = OnMessages(camera_name, detections[k])[2]
     /\ { published[k] : k \in (2 * n + 1)..Len(published) }
          = { OffMessage(camera_name, L) : L \in off }

\* C11: a failure to persist the frame never ends the cycle or the process;
\* inference runs, and the publishes and the state update of the cycle are
\* those of its detections, whatever save_frame did.
C11_PersistFailureHarmless ==
  /\ (save_result \in {"mkdir_failed", "write_failed"}) =>
       /\ pc \notin {"save", "skip"}
       /\ (pc = "crashed" => exc \in {"inference", "publish"})
       /\ (CycleDone => camera_name \in succeeded)
  /\ CycleSucceeded =>
       /\ PublishedAsDetected
       /\ previous_detections[camera_name] = last_labels[camera_name]

\* C11 witness: a cycle whose frame could not be written published and
\* changed the camera's state.
C11_Witness ==
  /\ CycleSucceeded
  /\ save_result = "write_failed"
  /\ AllOn # {}
  /\ AllOff # {}
  /\ previous_detections # prev_at_start

\* C12: in a successful cycle every "ON" on a label's state topic comes with
\* a confidence payload on that label's attributes topic, and every label of
\* the previous successful cycle that is no longer detected gets exactly one
\* "OFF" on its state topic and no attributes message; no other label gets
\* an "OFF".
C12_OnWithAttributesOffAlone ==
  CycleSucceeded =>
    \A L \in Labels :
      /\ \A k \in Sent(StateTopic(camera_name, L), <<"ON">>) :
           /\ k > 1
           /\ published[k - 1].topic = AttributesTopic(camera_name, L)
           /\ published[k - 1].payload[1] = "confidence"
      /\ IF L \in labels_before \ last_labels[camera_name]
         THEN /\ OffEvents(L) = 1
              /\ OnEvents(L) = 0
              /\ SentOn(AttributesTopic(camera_name, L)) = {}
         ELSE OffEvents(L) = 0

\* C12 witness: a cycle that switches one label on and another off.
C12_Witness ==
  /\ CycleSucceeded
  /\ \E L \in Labels : OnEvents(L) = 1
  /\ \E L \in Labels : OffEvents(L) = 1

\* C13: every topic a cycle publishes to is the state_topic or the
\* json_attributes_topic of a retained discovery payload, published before
\* the loop started, that is named for the same camera and the same label.
C13_TopicsRegistered ==
  \A k \in 1..Len(published) :
    \E m \in retained :
      /\ m.retain
      /\ m.payload.name[1] = published[k].topic[2]
      /\ Replace(m.payload.name[3]) = published[k].topic[3]
      /\ published[k].topic[4] = "state" => published[k].topic = m.payload.state_topic
      /\ published[k].topic[4] = "attributes" =>
           published[k].topic = m.payload.json_attributes_topic

\* C13 witness: a state message and an attributes message were published for
\* the label whose name contains a space.
C13_Witness ==
  /\ \E k \in 1..Len(published) :
       published[k].topic[3] = <<"t", "_", "l">> /\ published[k].topic[4] = "state"
  /\ \E k \in 1..Len(published) :
       published[k].topic[3] = <<"t", "_", "l">> /\ published[k].topic[4] = "attributes"

\* ------------------------------------------- publish_mqtt_discovery alone
\* Camera entries a configuration may hold; two of them share a name.
CameraPool ==
  { CAMERAS[1], CAMERAS[2], [name |-> "front", url |-> "rtsp://porch"] }

\* A retained message an earlier run left on one of the discovery topics.
StaleDiscovery ==
  Msg(DiscoveryTopic("front", ModelNames[1]),
      [ name |-> <<"front", " ", <<"o", "l", "d">>>>,
        state_topic |-> <<"old", "state">>,
        json_attributes_topic |-> <<"old", "attributes">>,
        payload_on |-> "ON",
        payload_off |-> "OFF",
        unique_id |-> <<"old">> ], TRUE)

\* A retained message of another client.
OtherRetained ==
  Msg(<<"weather", "state">>, <<"ON">>, TRUE)

InitDiscovery ==
  /\ pc = "discovery"
  /\ cameras \in SeqsUpTo(CameraPool, MaxCams)
  /\ retained \in SUBSET {StaleDiscovery, OtherRetained}
  /\ cap = CapIdle
  /\ InitLocals

\* Lines 71-98: one call of publish_mqtt_discovery on a connected client.
PublishDiscovery ==
  /\ pc = "discovery"
  /\ calls < MaxCalls
  /\ retained' = Retain(retained, DiscoverySequence(cameras, ModelNames))
  /\ calls' = calls + 1
  /\ retained_once' = IF calls = 0 THEN retained' ELSE retained_once
  /\ UNCHANGED << pc, exc, previous_detections, idx, cycleVars, timeVars,
                  histVars, cfgVars, on_topics >>

NextDiscovery == PublishDiscovery

SpecDiscovery == InitDiscovery /\ [][NextDiscovery]_vars

\* C14: after any further call of publish_mqtt_discovery for the same
\* cameras the broker retains what it retained after the first: one message
\* per topic, and for every camera and class the discovery payload, retained.
C14_DiscoveryIdempotent ==
  (pc = "discovery" /\ calls >= 1) =>
    /\ retained = retained_once
    /\ \A m1, m2 \in retained : m1.topic = m2.topic => m1 = m2
    /\ \A k \in 1..Len(cameras), j \in 1..Len(ModelNames) :
         Msg(DiscoveryTopic(cameras[k].name, ModelNames[j]),
             DiscoveryPayload(cameras[k].name, ModelNames[j]), TRUE) \in retained

\* C14 witness: a second call for two cameras, on a broker that held a stale
\* discovery message before the first.
C14_Witness ==
  /\ pc = "discovery"
  /\ calls = 2
  /\ Len(cameras) = 2
  /\ cameras[1].name # cameras[2].name
  /\ StaleDiscovery \notin retained
  /\ OtherRetained \in retained

\* main() is inside the scheduling loop of lines 135-197.
InLoop ==
  pc \in {"while", "for", "save", "skip", "predict", "publish_on", "publish_off", "sleep"}

\* C15: once a startup step has failed (configuration, model, connection or
\* discovery) the process is over and never entered the loop: no frame was
\* captured, nothing was inferred, nothing was published on a state or
\* attributes topic.
C15_StartupFailureFatal ==
  (exc \in {"config", "model_load", "connect", "discovery"}) =>
    /\ pc \in {"exited", "crashed"}
    /\ ~InLoop
    /\ frame = "unset"
    /\ detections = <<>>
    /\ succeeded = {}
    /\ published = <<>>
    /\ on_topics = {}
    /\ DOMAIN previous_detections = {}

\* C15 witness: discovery raised after some of its messages were published.
C15_Witness == exc = "discovery" /\ pc = "exited" /\ retained # {}

\* The loop under the scheduling the interpreter gives it: a step that can be
\* taken is taken.
FairSpec == Spec /\ WF_vars(Next)

\* C16: while every capture and inference call returns, the loop never
\* stops, so every camera keeps being attempted pass after pass.
C16_CamerasKeepRunning ==
  (DOMAIN previous_detections # {} /\ exc # "inference") => pc # "crashed"

\* The part of C16 about the outage itself: a camera whose capture failed is
\* followed by the next camera's cycle, or by the next pass.
C16_OutageDoesNotStall ==
  \A i \in 1..Len(CAMERAS) :
    (pc = "skip" /\ idx = i) ~> (pc = "for" /\ idx = (i % Len(CAMERAS)) + 1)

\* C17: previous_detections gets its keys, the configured camera names, when
\* the loop is entered and keeps exactly those; a step changes an entry only
\* as the update at the end of that camera's own cycle.
C17_OwnEntryOnly ==
  [][ /\ DOMAIN previous_detections = {} =>
           \/ DOMAIN previous_detections' = {}
           \/ previous_detections' = [c \in CameraNames |-> {}]
      /\ DOMAIN previous_detections # {} =>
           /\ DOMAIN previous_detections = CameraNames
           /\ DOMAIN previous_detections' = CameraNames
           /\ \A c \in CameraNames :
                previous_detections'[c] # previous_detections[c] =>
                  /\ pc = "publish_off"
                  /\ idx \in 1..Len(cameras)
                  /\ c = cameras[idx].name ]_vars

\* C17 witness: a cycle changed its camera's entry while the other camera's
\* entry held labels.
C17_Witness ==
  /\ CycleSucceeded
  /\ previous_detections[camera_name] # prev_at_start[camera_name]
  /\ \E c \in CameraNames \ {camera_name} :
       previous_detections[c] # {} /\ previous_detections[c] = prev_at_start[c]

\* ------------------------------------------- any configuration file
\* Configurations json.load accepts: CAMERAS, and one whose two cameras
\* share a name.
Configs ==
  { CAMERAS,
    << CAMERAS[1], [name |-> "front", url |-> "rtsp://porch"] >> }

InitConfig ==
  /\ pc = "load_config"
  /\ retained = {}
  /\ cameras \in Configs
  /\ cap = CapIdle
  /\ InitLocals

SpecConfig == InitConfig /\ [][Next]_vars

\* C18: the cameras of a configuration that enters the loop have distinct
\* names, so each has a previous_detections entry of its own.
C18_UniqueNamesInLoop ==
  InLoop =>
    /\ \A i, j \in 1..Len(cameras) : i # j => cameras[i].name # cameras[j].name
    /\ Cardinality(DOMAIN previous_detections) = Len(cameras)

\* ------------------------------------------------ get_camera_frame alone
\* Lines 41-42: one warm-up read; what it returns is discarded.
WarmupReadStrict(c) ==
  IF c.warm[c.reads + 1]
  THEN [c EXCEPT !.reads = @ + 1]
  ELSE [c EXCEPT !.reads = @ + 1, !.at = "done", !.result = "None", !.released = TRUE]

WarmupRead(c) == [c EXCEPT !.reads = @ + 1]

\* What the stream does during one call: whether it opens, and what each of
\* the warm-up reads and the final read returns.
CaptureInputs ==
  [opened : BOOLEAN, warm : [1..WarmupReads -> BOOLEAN], ret : BOOLEAN,
   at : {"open"}, reads : {0}, released : {FALSE}, result : {"unset"}]

mainVars ==
  << pc, exc, retained, previous_detections, idx, cycleVars, timeVars, histVars,
     cameras, on_topics, discVars >>

InitCapture ==
  /\ pc = "get_camera_frame"
  /\ retained = {}
  /\ cameras = CAMERAS
  /\ cap \in CaptureInputs
  /\ InitLocals

\* Lines 34-38.
CapOpen ==
  /\ cap.at = "open"
  /\ cap' = IF cap.opened THEN [cap EXCEPT !.at = "warmup"]
            ELSE [cap EXCEPT !.at = "done", !.result = "None"]
  /\ UNCHANGED mainVars

\* Lines 40-42.
CapWarmup ==
  /\ cap.at = "warmup"
  /\ cap.reads < WarmupReads
  /\ cap' = WarmupRead(cap)
  /\ UNCHANGED mainVars

\* Lines 44-45: the read that counts, then the release.
CapFinalRead ==
  /\ cap.at = "warmup"
  /\ cap.reads = WarmupReads
  /\ cap' = [cap EXCEPT !.reads = @ + 1, !.released = TRUE, !.at = "return"]
  /\ UNCHANGED mainVars

\* Lines 47-51.
CapReturn ==
  /\ cap.at = "return"
  /\ cap' = [cap EXCEPT !.at = "done", !.result = IF cap.ret THEN "frame" ELSE "None"]
  /\ UNCHANGED mainVars

NextCapture ==
  \/ CapOpen
  \/ CapWarmup
  \/ CapFinalRead
  \/ CapReturn

SpecCapture == InitCapture /\ [][NextCapture]_vars

\* C19: get_camera_frame returns a frame exactly when the stream opened and
\* the final read succeeded; whatever the warm-up reads return, an opened
\* stream is read WarmupReads + 1 times and released, and the result is the
\* one main() is modelled to receive.
C19_WarmupLenient ==
  (cap.at = "done") =>
    /\ (cap.result = "frame") <=> (cap.opened /\ cap.ret)
    /\ cap.result \in {"frame", "None"}
    /\ cap.opened => (cap.reads = WarmupReads + 1 /\ cap.released)
    /\ cap.result = get_camera_frame(cap.opened, cap.warm, cap.ret)

\* C19 witness: a frame was returned although every warm-up read failed.
C19_Witness ==
  /\ cap.at = "done"
  /\ cap.result = "frame"
  /\ \A k \in 1..WarmupReads : ~cap.warm[k]

\* C20: between cycles, with publishes delivered in the order issued, a
\* label's state topic last carried "ON" exactly when the label is in its
\* camera's previous_detections entry; and every label about to be sent
\* "OFF" has "ON" as the last payload of its state topic.
C20_TopicOnIffPresent ==
  /\ (pc \in {"sleep", "for", "while"} /\ DOMAIN previous_detections # {}) =>
       \A c \in CameraNames, L \in Labels :
         (StateTopic(c, L) \in on_topics) <=> (L \in previous_detections[c])
  /\ (pc = "publish_off") =>
       \A L \in disappeared : StateTopic(camera_name, L) \in on_topics

\* C20 witness: a cycle ended that switched a label off and left another on.
C20_Witness ==
  /\ CycleSucceeded
  /\ AllOff # {}
  /\ previous_detections[camera_name] # {}
  /\ on_topics # {}

====
